---- MODULE Spec2Model ----
(***************************************************************************)
(* Model of frontend/src/features/editor/editor.ts: the two view plugins   *)
(* (heading and checkbox decorations that skip the active line), the       *)
(* checkbox widget's toggle, and the EditorComponent lifecycle with its    *)
(* export action.                                                          *)
(*                                                                         *)
(* A document is a sequence of lines, a line a sequence of one-character   *)
(* strings without "\n"; offsets are 0-based as in the editor library, so  *)
(* the character at offset p of a line is text[p + 1].                     *)
(***************************************************************************)
EXTENDS Integers, Sequences, FiniteSets, TLC

VARIABLES lifecycle, view, headingDecorations, checkboxDecorations,
          exported, last, edits, scan

vars == <<lifecycle, view, headingDecorations, checkboxDecorations,
          exported, last, edits, scan>>

(***************************************************************************)
(* Bounds of the model                                                     *)
(***************************************************************************)
MaxEdits == 1
MaxLines == 2
MaxScanLen == 5
MaxRanges == 2

(***************************************************************************)
(* Program constants                                                       *)
(***************************************************************************)
MaxHeadingLevel == 6
TokenLen == 3

Whitespace == {" ", "\t"}
TokenChars == {" ", "x", "X"}

Max(S) == CHOOSE m \in S : \A n \in S : n <= m
Min(S) == CHOOSE m \in S : \A n \in S : m <= n

(***************************************************************************)
(* The document: Text <-> string                                           *)
(***************************************************************************)
RECURSIVE DocToString(_)
DocToString(doc) ==
  IF Len(doc) = 1 THEN doc[1]
  ELSE doc[1] \o <<"\n">> \o DocToString(Tail(doc))

RECURSIVE TextOf(_)
TextOf(str) ==
  LET nl == {i \in 1..Len(str) : str[i] = "\n"}
  IN IF nl = {} THEN <<str>>
     ELSE <<SubSeq(str, 1, Min(nl) - 1)>> \o TextOf(SubSeq(str, Min(nl) + 1, Len(str)))

DocLength(doc) == Len(DocToString(doc))

RECURSIVE LineFrom(_, _)
LineFrom(doc, n) ==
  IF n = 1 THEN 0 ELSE LineFrom(doc, n - 1) + Len(doc[n - 1]) + 1

LineOf(doc, n) ==
  [number |-> n, from |-> LineFrom(doc, n),
   to |-> LineFrom(doc, n) + Len(doc[n]), text |-> doc[n]]

InDoc(doc, pos) == 0 <= pos /\ pos <= DocLength(doc)

lineAt(doc, pos) ==
  LineOf(doc, CHOOSE n \in 1..Len(doc) :
                 LineFrom(doc, n) <= pos /\ pos <= LineFrom(doc, n) + Len(doc[n]))

(***************************************************************************)
(* Transactions: a change {from, to, insert} and position mapping          *)
(***************************************************************************)
ApplyChange(doc, from, to, insert) ==
  LET str == DocToString(doc)
  IN TextOf(SubSeq(str, 1, from) \o insert \o SubSeq(str, to + 1, Len(str)))

MapPos(pos, from, to, insLen, assoc) ==
  IF pos < from THEN pos
  ELSE IF pos < to \/ (pos = to /\ from = to /\ assoc < 0)
       THEN (IF pos = from \/ assoc < 0 THEN from ELSE from + insLen)
       ELSE pos - (to - from) + insLen

MapViewport(ranges, doc2, from, to, insLen) ==
  [i \in 1..Len(ranges) |->
     [from |-> lineAt(doc2, MapPos(ranges[i].from, from, to, insLen, -1)).from,
      to |-> lineAt(doc2, MapPos(ranges[i].to, from, to, insLen, 1)).to]]

(***************************************************************************)
(* Decorations                                                             *)
(***************************************************************************)
NoWidget == [type |-> "none", checked |-> FALSE, from |-> 0, to |-> 0]
HiddenMarkerWidget == [type |-> "HiddenMarkerWidget", checked |-> FALSE, from |-> 0, to |-> 0]
CheckboxWidget(checked, from, to) ==
  [type |-> "CheckboxWidget", checked |-> checked, from |-> from, to |-> to]

DecorationReplace(from, to, widget) ==
  [kind |-> "replace", from |-> from, to |-> to, class |-> "", widget |-> widget]
DecorationLine(from, class) ==
  [kind |-> "line", from |-> from, to |-> from, class |-> class, widget |-> NoWidget]

HeadingClass(level) ==
  <<"md-h1", "md-h2", "md-h3", "md-h4", "md-h5", "md-h6">>[level]

(***************************************************************************)
(* Heading plugin                                                          *)
(***************************************************************************)
\* mutant: the pattern without its whitespace separator, /^(#{1,6})/
HeadingMatchNoSeparator(text) ==
  LET ks == {k \in 1..MaxHeadingLevel :
               k <= Len(text) /\ \A i \in 1..k : text[i] = "#"}
  IN IF ks = {} THEN 0 ELSE Max(ks)

\* text.match(/^(#{1,6})\s+(.*)$/): the length of group 1, 0 when no match
HeadingMatch(text) ==
  LET ks == {k \in 1..MaxHeadingLevel :
               /\ k + 1 <= Len(text)
               /\ \A i \in 1..k : text[i] = "#"
               /\ text[k + 1] \in Whitespace}
  IN IF ks = {} THEN 0 ELSE Max(ks)

HeadingMarkerLen(hashes) == hashes + 1

HeadingLineDecorations(line) ==
  LET hashes == HeadingMatch(line.text)
  IN IF hashes = 0 THEN <<>>
     ELSE <<DecorationReplace(line.from, line.from + HeadingMarkerLen(hashes),
                              HiddenMarkerWidget),
            DecorationLine(line.from, HeadingClass(hashes))>>

\* mutant: the active line's 1-based number compared as if it were 0-based
IsActiveLineOffByOne(line, activeLine) == line.number = activeLine.number - 1

IsActiveLine(line, activeLine) == line.number = activeLine.number

\* mutant: the scan resumes at the line's end instead of past its break
NextPosAtLineEnd(line) == line.to

\* pos = line.to + 1
NextPos(line) == line.to + 1

HeadingIteration(doc, activeLine, pos) ==
  LET line == lineAt(doc, pos)
  IN IF IsActiveLine(line, activeLine)
     THEN [pos |-> NextPos(line), add |-> <<>>]
     ELSE [pos |-> NextPos(line), add |-> HeadingLineDecorations(line)]

(***************************************************************************)
(* Checkbox plugin                                                         *)
(***************************************************************************)
\* text.match(/^\s*-\s*\[( |x|X)\]/): group 1 as a one-element set, {} when
\* there is no match
CheckboxMatch(text) ==
  {text[i + j + 3] : <<i, j>> \in
     {p \in (0..Len(text)) \X (0..Len(text)) :
        /\ p[1] + p[2] + 4 <= Len(text)
        /\ \A k \in 1..p[1] : text[k] \in Whitespace
        /\ text[p[1] + 1] = "-"
        /\ \A k \in (p[1] + 2)..(p[1] + p[2] + 1) : text[k] \in Whitespace
        /\ text[p[1] + p[2] + 2] = "["
        /\ text[p[1] + p[2] + 3] \in TokenChars
        /\ text[p[1] + p[2] + 4] = "]"}}

\* text.indexOf(ch): 0-based, -1 when absent
IndexOf(text, ch) ==
  LET at == {i \in 1..Len(text) : text[i] = ch}
  IN IF at = {} THEN -1 ELSE Min(at) - 1

ToLowerCase(ch) == IF ch = "X" THEN "x" ELSE ch

CheckboxChecked(group) == ToLowerCase(group) = "x"

CheckboxLineDecorations(line) ==
  LET match == CheckboxMatch(line.text)
      bracketIndex == IndexOf(line.text, "[")
      fromAbs == line.from + bracketIndex
      toAbs == fromAbs + TokenLen
  IN IF match = {} \/ bracketIndex = -1 THEN <<>>
     ELSE LET checked == CheckboxChecked(CHOOSE g \in match : TRUE)
          IN <<DecorationReplace(fromAbs, toAbs, CheckboxWidget(checked, fromAbs, toAbs))>>

CheckboxIteration(doc, activeLine, pos) ==
  LET line == lineAt(doc, pos)
  IN IF IsActiveLine(line, activeLine)
     THEN [pos |-> NextPos(line), add |-> <<>>]
     ELSE [pos |-> NextPos(line), add |-> CheckboxLineDecorations(line)]

(***************************************************************************)
(* build(view): for each visible range, while (pos <= to) ...              *)
(***************************************************************************)
Iteration(plugin, doc, activeLine, pos) ==
  IF plugin = "heading" THEN HeadingIteration(doc, activeLine, pos)
  ELSE CheckboxIteration(doc, activeLine, pos)

LoopCondition(pos, to) == pos <= to

RECURSIVE ScanRange(_, _, _, _, _, _)
ScanRange(plugin, doc, activeLine, pos, to, builder) ==
  IF ~LoopCondition(pos, to) THEN builder
  ELSE LET it == Iteration(plugin, doc, activeLine, pos)
       IN ScanRange(plugin, doc, activeLine, it.pos, to, builder \o it.add)

RECURSIVE ScanRanges(_, _, _, _, _, _)
ScanRanges(plugin, doc, activeLine, ranges, i, builder) ==
  IF i > Len(ranges) THEN builder
  ELSE ScanRanges(plugin, doc, activeLine, ranges, i + 1,
                  ScanRange(plugin, doc, activeLine, ranges[i].from, ranges[i].to, builder))

Build(plugin, v) ==
  ScanRanges(plugin, v.doc, lineAt(v.doc, v.head), v.visibleRanges, 1, <<>>)

HeadingBuild(v) == Build("heading", v)
CheckboxBuild(v) == Build("checkbox", v)

\* mutant: update() without the selectionSet test
MustRebuildNoSelection(update) == update.docChanged \/ update.viewportChanged

\* mutant: update() without the docChanged test
MustRebuildNoDoc(update) == update.viewportChanged \/ update.selectionSet

\* update(update): rebuild when any of the three flags is set
MustRebuild(update) ==
  update.docChanged \/ update.viewportChanged \/ update.selectionSet

PluginUpdate(plugin, decorations, update, v) ==
  IF MustRebuild(update) THEN Build(plugin, v) ELSE decorations


(***************************************************************************)
(* EditorComponent: ngAfterViewInit, export, ngOnDestroy, and the editor   *)
(* view's update cycle                                                     *)
(***************************************************************************)
\* the initial document, abbreviated to one line of each kind it holds
InitialLines ==
  << <<"#", " ", "H">>,
     <<"-", " ", "[", " ", "]">> >>

EditChars == {"X", "\n"}

NoView == [doc |-> << <<>> >>, head |-> 0, visibleRanges |-> <<>>]
NoUpdate == [docChanged |-> FALSE, viewportChanged |-> FALSE, selectionSet |-> FALSE]
NoScan == [plugin |-> "none", i |-> 0, pos |-> 0, builder |-> <<>>, pc |-> "idle"]
Op(name, update, widget) == [op |-> name, update |-> update, widget |-> widget]

ViewIsNull == lifecycle # "mounted"

\* the viewport covers whole lines
Viewports(doc) ==
  {[from |-> LineOf(doc, i).from, to |-> LineOf(doc, j).to] :
     <<i, j>> \in {p \in (1..Len(doc)) \X (1..Len(doc)) : p[1] <= p[2]}}

Init ==
  /\ lifecycle = "created"
  /\ view = NoView
  /\ headingDecorations = <<>>
  /\ checkboxDecorations = <<>>
  /\ exported = <<>>
  /\ last = Op("new", NoUpdate, NoWidget)
  /\ edits = 0
  /\ scan = NoScan

\* ngAfterViewInit: EditorState.create + new EditorView, which constructs both
\* plugins (constructor: this.decorations = this.build(view))
ngAfterViewInit ==
  /\ lifecycle = "created"
  /\ LET doc == TextOf(DocToString(InitialLines))
         v == [doc |-> doc, head |-> 0,
               visibleRanges |-> <<[from |-> 0, to |-> DocLength(doc)]>>]
     IN /\ view' = v
        /\ headingDecorations' = HeadingBuild(v)
        /\ checkboxDecorations' = CheckboxBuild(v)
  /\ lifecycle' = "mounted"
  /\ last' = Op("mount", NoUpdate, NoWidget)
  /\ UNCHANGED <<exported, edits, scan>>

\* the editor delivers `update` for the new view state to both plugins
Deliver(name, update, v, widget) ==
  /\ view' = v
  /\ headingDecorations' = PluginUpdate("heading", headingDecorations, update, v)
  /\ checkboxDecorations' = PluginUpdate("checkbox", checkboxDecorations, update, v)
  /\ last' = Op(name, update, widget)

\* view.dispatch({changes: {from, to, insert}})
Dispatch(name, from, to, insert, widget) ==
  LET doc2 == ApplyChange(view.doc, from, to, insert)
      ranges2 == MapViewport(view.visibleRanges, doc2, from, to, Len(insert))
      v == [doc |-> doc2,
            head |-> MapPos(view.head, from, to, Len(insert), -1),
            visibleRanges |-> ranges2]
  IN Deliver(name,
             [docChanged |-> TRUE, viewportChanged |-> ranges2 # view.visibleRanges,
              selectionSet |-> FALSE],
             v, widget)

Edit ==
  /\ ~ViewIsNull
  /\ edits < MaxEdits
  /\ \E from \in 0..DocLength(view.doc) :
       \E to \in {t \in {from, from + 1} : t <= DocLength(view.doc)} :
         \E insert \in {<<>>} \cup {<<c>> : c \in EditChars} :
           /\ from # to \/ insert # <<>>
           /\ Dispatch("edit", from, to, insert, NoWidget)
  /\ edits' = edits + 1
  /\ UNCHANGED <<lifecycle, exported, scan>>

\* mutant: the token written from the state before the click
ToggleInsertStale(domChecked) ==
  IF domChecked THEN <<"[", " ", "]">> ELSE <<"[", "x", "]">>

\* the 'change' listener of a rendered checkbox: the user's click has flipped
\* checkbox.checked, which toDOM had set to this.checked
ToggleInsert(domChecked) ==
  IF domChecked THEN <<"[", "x", "]">> ELSE <<"[", " ", "]">>

Toggle ==
  /\ ~ViewIsNull
  /\ \E k \in 1..Len(checkboxDecorations) :
       LET w == checkboxDecorations[k].widget
       IN Dispatch("toggle", w.from, w.to, ToggleInsert(~w.checked), w)
  /\ UNCHANGED <<lifecycle, exported, edits, scan>>

SetSelection ==
  /\ ~ViewIsNull
  /\ \E h \in 0..DocLength(view.doc) :
       Deliver("select",
               [docChanged |-> FALSE, viewportChanged |-> FALSE, selectionSet |-> TRUE],
               [view EXCEPT !.head = h], NoWidget)
  /\ UNCHANGED <<lifecycle, exported, edits, scan>>

ViewportChange ==
  /\ ~ViewIsNull
  /\ \E vp \in Viewports(view.doc) :
       Deliver("viewport",
               [docChanged |-> FALSE, viewportChanged |-> <<vp>> # view.visibleRanges,
                selectionSet |-> FALSE],
               [view EXCEPT !.visibleRanges = <<vp>>], NoWidget)
  /\ UNCHANGED <<lifecycle, exported, edits, scan>>

\* an update that changes neither document, viewport nor selection (focus,
\* geometry)
OtherUpdate ==
  /\ ~ViewIsNull
  /\ Deliver("other", NoUpdate, view, NoWidget)
  /\ UNCHANGED <<lifecycle, exported, edits, scan>>

\* mutant: export of the text in view only
ExportedVisibleText(v) ==
  SubSeq(DocToString(v.doc), v.visibleRanges[1].from + 1, v.visibleRanges[1].to)

\* this.view.state.doc.toString()
ExportedText(v) == DocToString(v.doc)

export ==
  /\ exported' = IF ViewIsNull THEN exported ELSE ExportedText(view)
  /\ last' = Op("export", NoUpdate, NoWidget)
  /\ UNCHANGED <<lifecycle, view, headingDecorations, checkboxDecorations, edits, scan>>

ngOnDestroy ==
  /\ lifecycle = "mounted"
  /\ lifecycle' = "destroyed"
  /\ view' = NoView
  /\ headingDecorations' = <<>>
  /\ checkboxDecorations' = <<>>
  /\ last' = Op("destroy", NoUpdate, NoWidget)
  /\ UNCHANGED <<exported, edits, scan>>

Next ==
  \/ ngAfterViewInit
  \/ Edit
  \/ Toggle
  \/ SetSelection
  \/ ViewportChange
  \/ OtherUpdate
  \/ export
  \/ ngOnDestroy

Spec == Init /\ [][Next]_vars


(***************************************************************************)
(* SpecBuild: the plugins' constructors (one full build each) on a view    *)
(* whose document, selection head and viewport are drawn from bounded sets *)
(***************************************************************************)
LineTexts ==
  { <<>>,
    <<"#", "#", " ", "H", "o", "l", "a">>,
    <<"#", "#", "#", "#", "#", "#", " ", "a">>,
    <<"#", "#", "#", "#", "#", "#", "#", " ", "a">>,
    <<"#", "a">>,
    <<" ", "#", " ", "a">>,
    <<"#", "#", " ", " ", "a">>,
    <<"#", "\t", "a">>,
    <<"-", " ", "[", " ", "]", " ", "a">>,
    <<"-", "[", "X", "]", "G", "o">>,
    <<" ", " ", "-", " ", "[", "x", "]">>,
    <<"-", " ", "[", " ", "x", "]">>,
    <<"-", " ", "[", "y", "]">>,
    <<"[", " ", "]", " ", "a">> }

Docs == UNION {[1..n -> LineTexts] : n \in 1..MaxLines}

InitBuild ==
  /\ lifecycle = "constructing"
  /\ \E d \in Docs :
       \E h \in 0..DocLength(d) :
         \E vp \in Viewports(d) :
           view = [doc |-> d, head |-> h, visibleRanges |-> <<vp>>]
  /\ headingDecorations = <<>>
  /\ checkboxDecorations = <<>>
  /\ exported = <<>>
  /\ last = Op("new", NoUpdate, NoWidget)
  /\ edits = 0
  /\ scan = NoScan

\* constructor(view) of both plugins
ConstructPlugins ==
  /\ lifecycle = "constructing"
  /\ lifecycle' = "mounted"
  /\ headingDecorations' = HeadingBuild(view)
  /\ checkboxDecorations' = CheckboxBuild(view)
  /\ last' = Op("mount", NoUpdate, NoWidget)
  /\ UNCHANGED <<view, exported, edits, scan>>

NextBuild == ConstructPlugins

SpecBuild == InitBuild /\ [][NextBuild]_vars

(***************************************************************************)
(* SpecScan: one build pass, one loop iteration at a time, over any list   *)
(* of disjoint visible ranges in ascending order                           *)
(***************************************************************************)
ScanLineTexts ==
  { <<>>, <<"#", " ">>, <<"-", "[", "x", "]">> }

ScanDocs ==
  {d \in UNION {[1..n -> ScanLineTexts] : n \in 1..(MaxScanLen + 1)} :
     DocLength(d) <= MaxScanLen}

Ranges(len) ==
  {[from |-> p[1], to |-> p[2]] : p \in {q \in (0..len) \X (0..len) : q[1] <= q[2]}}

RangeLists(len) ==
  UNION {{rs \in [1..n -> Ranges(len)] :
            \A i \in 1..(n - 1) : rs[i].to < rs[i + 1].from} : n \in 0..MaxRanges}

InitScan ==
  /\ lifecycle = "constructing"
  /\ \E d \in ScanDocs :
       \E h \in 0..DocLength(d) :
         \E rs \in RangeLists(DocLength(d)) :
           view = [doc |-> d, head |-> h, visibleRanges |-> rs]
  /\ headingDecorations = <<>>
  /\ checkboxDecorations = <<>>
  /\ exported = <<>>
  /\ last = Op("new", NoUpdate, NoWidget)
  /\ edits = 0
  /\ \E plugin \in {"heading", "checkbox"} :
       scan = [plugin |-> plugin, i |-> 1, pos |-> 0, builder |-> <<>>, pc |-> "for"]

\* for (const { from, to } of view.visibleRanges) { let pos = from; ...
ForNext ==
  /\ scan.pc = "for"
  /\ scan.i <= Len(view.visibleRanges)
  /\ scan' = [scan EXCEPT !.pos = view.visibleRanges[scan.i].from, !.pc = "while"]
  /\ UNCHANGED <<lifecycle, view, headingDecorations, checkboxDecorations,
                 exported, last, edits>>

\* one iteration of while (pos <= to); lineAt throws a RangeError outside
\* the document
WhileIteration ==
  /\ scan.pc = "while"
  /\ LoopCondition(scan.pos, view.visibleRanges[scan.i].to)
  /\ IF ~InDoc(view.doc, scan.pos)
     THEN scan' = [scan EXCEPT !.pc = "RangeError"]
     ELSE LET it == Iteration(scan.plugin, view.doc, lineAt(view.doc, view.head), scan.pos)
          IN scan' = [scan EXCEPT !.pos = it.pos, !.builder = scan.builder \o it.add]
  /\ UNCHANGED <<lifecycle, view, headingDecorations, checkboxDecorations,
                 exported, last, edits>>

WhileExit ==
  /\ scan.pc = "while"
  /\ ~LoopCondition(scan.pos, view.visibleRanges[scan.i].to)
  /\ scan' = [scan EXCEPT !.i = scan.i + 1, !.pc = "for"]
  /\ UNCHANGED <<lifecycle, view, headingDecorations, checkboxDecorations,
                 exported, last, edits>>

\* return builder.finish()
Finish ==
  /\ scan.pc = "for"
  /\ scan.i > Len(view.visibleRanges)
  /\ scan' = [scan EXCEPT !.pc = "done"]
  /\ lifecycle' = "mounted"
  /\ headingDecorations' = IF scan.plugin = "heading" THEN scan.builder ELSE headingDecorations
  /\ checkboxDecorations' = IF scan.plugin = "checkbox" THEN scan.builder ELSE checkboxDecorations
  /\ UNCHANGED <<view, exported, last, edits>>

NextScan ==
  \/ ForNext
  \/ WhileIteration
  \/ WhileExit
  \/ Finish

SpecScan == InitScan /\ [][NextScan]_vars /\ WF_vars(NextScan)


(***************************************************************************)
(* Properties.  The predicates below restate the rules in their own terms. *)
(***************************************************************************)
Lines(doc) == {LineOf(doc, n) : n \in 1..Len(doc)}

ActiveLine == lineAt(view.doc, view.head)

\* a line is visible when some visible range meets it
Visible(line) ==
  \E i \in 1..Len(view.visibleRanges) :
    view.visibleRanges[i].from <= line.to /\ line.from <= view.visibleRanges[i].to

\* the indices of the decorations of ds that start on the line
OnLine(ds, line) ==
  {i \in 1..Len(ds) : line.from <= ds[i].from /\ ds[i].from <= line.to}

\* the number of leading characters of text, from index p on, that lie in S
RECURSIVE Run(_, _, _)
Run(text, p, S) ==
  IF p <= Len(text) /\ text[p] \in S THEN 1 + Run(text, p + 1, S) ELSE 0

\* optional whitespace, a dash, optional whitespace, "[", one of space/x/X, "]":
\* the 0-based index of the "[", -1 when the line is no checkbox item
TokenIndex(text) ==
  LET dash == Run(text, 1, Whitespace) + 1
      open == dash + 1 + Run(text, dash + 1, Whitespace)
  IN IF /\ open + 2 <= Len(text)
        /\ text[dash] = "-"
        /\ text[open] = "["
        /\ text[open + 1] \in {" ", "x", "X"}
        /\ text[open + 2] = "]"
     THEN open - 1 ELSE -1

\* C1: no decoration of either build lies on (or reaches into) the line that
\* holds the selection head, whatever that line's text and whatever the
\* visible ranges.
C1_ActiveLineExclusion ==
  scan.pc \in {"for", "while", "done"} =>
    \A i \in 1..Len(scan.builder) :
      \/ scan.builder[i].to < ActiveLine.from
      \/ scan.builder[i].from > ActiveLine.to

\* C1 witness: a finished pass that decorated another line while the active
\* line, itself a heading or checkbox item, was visible.
C1_Witness ==
  /\ scan.pc = "done"
  /\ scan.builder # <<>>
  /\ Visible(ActiveLine)
  /\ ActiveLine.text # <<>>

\* C8: every build pass terminates, the scan position strictly increases on
\* each loop iteration (also when the active line is skipped), and no line is
\* looked up beyond the document end.
C8_ScanTerminates ==
  /\ [][(scan.pc = "while" /\ scan'.pc = "while") => scan'.pos > scan.pos]_vars
  /\ [](scan.pc # "RangeError")
  /\ <>(scan.pc = "done")

\* C8 witness: a finished pass over a document whose last line is empty, with
\* a range that ends at the document end and the active line in view.
C8_Witness ==
  /\ scan.pc = "done"
  /\ Len(view.doc) > 1
  /\ view.doc[Len(view.doc)] = <<>>
  /\ Visible(ActiveLine)
  /\ \E i \in 1..Len(view.visibleRanges) :
       view.visibleRanges[i].to = DocLength(view.doc)

\* C10 (as claimed): one pass emits at most one replacement and at most one
\* line class per line, with non-decreasing start offsets.
C10_OncePerLine ==
  scan.pc = "done" =>
    /\ \A line \in Lines(view.doc) :
         /\ Cardinality({i \in OnLine(scan.builder, line) :
                           scan.builder[i].kind = "replace"}) <= 1
         /\ Cardinality({i \in OnLine(scan.builder, line) :
                           scan.builder[i].kind = "line"}) <= 1
    /\ \A i \in 1..(Len(scan.builder) - 1) :
         scan.builder[i].from <= scan.builder[i + 1].from

\* C4 (as claimed): every visible non-active checkbox item gets exactly one
\* replacement, over exactly its 3-character token, checked iff the token
\* holds x or X; every other visible non-active line gets none.
C4_CheckboxRendering ==
  (scan.pc = "done" /\ scan.plugin = "checkbox") =>
    \A line \in Lines(view.doc) :
      (Visible(line) /\ line.number # ActiveLine.number) =>
        LET at == TokenIndex(line.text)
            on == OnLine(scan.builder, line)
        IN IF at = -1 THEN on = {}
           ELSE /\ Cardinality(on) = 1
                /\ \A i \in on :
                     /\ scan.builder[i].kind = "replace"
                     /\ scan.builder[i].from = line.from + at
                     /\ scan.builder[i].to = line.from + at + 3
                     /\ scan.builder[i].widget.type = "CheckboxWidget"
                     /\ scan.builder[i].widget.checked
                          <=> line.text[at + 2] \in {"x", "X"}

\* the scan, run to its end, returns what the one-step build returns
ScanAgreesWithBuild ==
  scan.pc = "done" => scan.builder = Build(scan.plugin, view)


HeldDecorations == <<headingDecorations, checkboxDecorations>>

\* the text of the document as one string, line breaks included
Flat == DocToString(view.doc)

C5_MarkerAndSeparatorHidden ==
  lifecycle = "mounted" =>
    \A line \in Lines(view.doc) :
      LET k == Run(line.text, 1, {"#"})
          sep == Run(line.text, k + 1, Whitespace)
      IN (Visible(line) /\ line.number # ActiveLine.number /\ k \in 1..6 /\ sep >= 1) =>
           \E i \in 1..Len(headingDecorations) :
             /\ headingDecorations[i].kind = "replace"
             /\ headingDecorations[i].from = line.from
             /\ headingDecorations[i].to = line.from + k + sep

\* C2: while the editor is mounted each plugin holds exactly what a fresh full
\* build over the current document, selection head and visible ranges gives;
\* an update with none of docChanged / viewportChanged / selectionSet leaves
\* the held sets as they were, and so does any update (a rebuild included)
\* that leaves document, selection and visible ranges as they were.
C2_DecorationsNeverStale ==
  /\ [](~ViewIsNull =>
          /\ headingDecorations = HeadingBuild(view)
          /\ checkboxDecorations = CheckboxBuild(view))
  /\ [][(last'.op \in {"edit", "toggle", "select", "viewport", "other"}
           /\ ~last'.update.docChanged
           /\ ~last'.update.viewportChanged
           /\ ~last'.update.selectionSet)
        => HeldDecorations' = HeldDecorations]_vars
  /\ [][(~ViewIsNull /\ ~ViewIsNull' /\ view' = view)
        => HeldDecorations' = HeldDecorations]_vars

\* C2 witness: a selection change alone has brought the heading of line 1,
\* undecorated while the head was on it, into the held set.
C2_Witness ==
  /\ last.op = "select"
  /\ edits = 0
  /\ headingDecorations # <<>>

\* C3: a toggle leaves the document length and every character outside the
\* widget's 3-character span unchanged; a span reading "[ ]" then reads "[x]",
\* a span reading "[x]" or "[X]" then reads "[ ]".
C3_ToggleRoundTrip ==
  [][last'.op = "toggle" =>
       LET w == last'.widget
           old == DocToString(view.doc)
           new == DocToString(view'.doc)
           span == SubSeq(old, w.from + 1, w.to)
       IN /\ w.to = w.from + 3
          /\ Len(new) = Len(old)
          /\ \A i \in 1..Len(old) : (i <= w.from \/ i > w.to) => new[i] = old[i]
          /\ span = <<"[", " ", "]">> => SubSeq(new, w.from + 1, w.to) = <<"[", "x", "]">>
          /\ span \in {<<"[", "x", "]">>, <<"[", "X", "]">>}
               => SubSeq(new, w.from + 1, w.to) = <<"[", " ", "]">>
          /\ span \in {<<"[", " ", "]">>, <<"[", "x", "]">>, <<"[", "X", "]">>}]_vars

\* C3 witness: a checked widget has been toggled, after an edit (the document
\* holds an "X" only once one was typed).
C3_Witness ==
  /\ last.op = "toggle"
  /\ last.widget.checked
  /\ edits = 1
  /\ SubSeq(Flat, last.widget.from + 1, last.widget.to) = <<"[", " ", "]">>

\* C7: an export while the editor is mounted sets the exported string to the
\* whole current document text (split at its line breaks it gives back the
\* document's lines) and changes nothing else; an export before mount or
\* after unmount changes nothing at all.
C7_Export ==
  [][last'.op = "export" =>
       /\ UNCHANGED <<lifecycle, view, headingDecorations, checkboxDecorations>>
       /\ lifecycle = "mounted" =>
            /\ TextOf(exported') = view.doc
            /\ Len(exported') = DocLength(view.doc)
       /\ lifecycle # "mounted" => exported' = exported]_vars

\* C7 witness: an export after unmount has kept the text that was exported
\* while the editor was mounted, after an edit had added a line to it.
C7_Witness ==
  /\ last.op = "export"
  /\ lifecycle = "destroyed"
  /\ Len(TextOf(exported)) >= 3

\* C9: every checkbox widget held has to = from + 3, and the current document
\* reads "[ ]", "[x]" or "[X]" at [from, to), checked iff it reads x or X.
C9_WidgetRangesValid ==
  ~ViewIsNull =>
    \A i \in 1..Len(checkboxDecorations) :
      LET w == checkboxDecorations[i].widget
      IN /\ w.to = w.from + 3
         /\ w.to <= Len(Flat)
         /\ Flat[w.from + 1] = "["
         /\ Flat[w.from + 2] \in {" ", "x", "X"}
         /\ Flat[w.from + 3] = "]"
         /\ w.checked <=> Flat[w.from + 2] \in {"x", "X"}

\* C9 witness: after an edit before the checkbox line the widget sits at a
\* shifted offset (the initial token starts at offset 6).
C9_Witness ==
  /\ last.op = "edit"
  /\ checkboxDecorations # <<>>
  /\ checkboxDecorations[1].widget.from # 6

====
